---- MODULE Spec2Model ----
(***************************************************************************)
(* KennisHubAPI (src/api.py): a synchronous client that maps each method   *)
(* call to one HTTP request and interprets the response.                   *)
(*                                                                         *)
(* Python values are represented as follows.                               *)
(*   str whose content is inspected : sequence of characters / tokens      *)
(*   JSON scalar that is only passed through : its JSON literal text       *)
(*   dict : function whose DOMAIN is the set of keys that are present      *)
(*   list : sequence                                                       *)
(*   optional value (None or v) in a result : <<>> or <<v>>                *)
(***************************************************************************)
EXTENDS Integers, Sequences, FiniteSets, TLC

VARIABLES self, pc, op, args, sent, received, result

vars == <<self, pc, op, args, sent, received, result>>

(***************************************************************************)
(* Bounds of the model.                                                    *)
(***************************************************************************)
\* longest "data" array the remote service answers with
MaxTopics == 2

(***************************************************************************)
(* Program constants.                                                      *)
(***************************************************************************)
MaxDescription == 280
MaxLinkDescription == 180
MaxMessage == 144
MinPassword == 8
HTTP_OK == 200
HTTP_UNAUTHORIZED == 401
DefaultBaseUrl == "https://admin.kennishub.nl/api/v1/"
InvalidEmailText == "The selected E-mailadres is invalid."

(***************************************************************************)
(* Python / JSON values.                                                   *)
(***************************************************************************)
\* None, and the JSON literal null that decodes to it
None == "null"

\* the dict {}
EmptyDict == [k \in {} |-> None]

\* bool(v) of a decoded JSON scalar
Truthy(v) == v \notin {"null", "false", "0", "\"\""}

\* v == True of a decoded JSON scalar (1 == True holds in Python)
EqTrue(v) == v \in {"true", "1"}

\* d.get(key)
Get(d, key) == IF key \in DOMAIN d THEN d[key] ELSE None

\* d.get(key, default)
GetDefault(d, key, default) == IF key \in DOMAIN d THEN d[key] ELSE default

\* a str of n characters
Str(n) == [i \in 1..n |-> "x"]

\* sub in s, for strs given as sequences
Contains(s, sub) ==
  \E i \in 0..(Len(s) - Len(sub)) : \A j \in 1..Len(sub) : s[i + j] = sub[j]

Lower == {"a", "b", "c", "d", "e", "f", "g", "h", "i", "j", "k", "l", "m",
          "n", "o", "p", "q", "r", "s", "t", "u", "v", "w", "x", "y", "z"}
Upper == {"A", "B", "C", "D", "E", "F", "G", "H", "I", "J", "K", "L", "M",
          "N", "O", "P", "Q", "R", "S", "T", "U", "V", "W", "X", "Y", "Z"}
Digit == {"0", "1", "2", "3", "4", "5", "6", "7", "8", "9"}
LowerSeq == <<"a", "b", "c", "d", "e", "f", "g", "h", "i", "j", "k", "l", "m",
              "n", "o", "p", "q", "r", "s", "t", "u", "v", "w", "x", "y", "z">>
UpperSeq == <<"A", "B", "C", "D", "E", "F", "G", "H", "I", "J", "K", "L", "M",
              "N", "O", "P", "Q", "R", "S", "T", "U", "V", "W", "X", "Y", "Z">>

\* str.lower() of one character
LowerChar(c) ==
  IF c \in Upper THEN LowerSeq[CHOOSE i \in 1..26 : UpperSeq[i] = c] ELSE c

(***************************************************************************)
(* Outcome of a call: a return value or a raised exception, with the       *)
(* source line of the statement that produced it.                          *)
(***************************************************************************)
NoResult == [kind |-> "none", exc |-> "", msg |-> <<>>, value |-> <<>>, line |-> 0]

Return(v, l) == [kind |-> "return", exc |-> "", msg |-> <<>>, value |-> <<v>>, line |-> l]

\* falling off the end of a method, or a bare return: the caller gets None
ReturnNone(l) == [kind |-> "return", exc |-> "", msg |-> <<>>, value |-> <<>>, line |-> l]

Raise(e, m, l) == [kind |-> "raise", exc |-> e, msg |-> m, value |-> <<>>, line |-> l]

\* no exception pending
Passed == [kind |-> "pass", exc |-> "", msg |-> <<>>, value |-> <<>>, line |-> 0]

(***************************************************************************)
(* Validation helpers.                                                     *)
(***************************************************************************)
\* variant: the length limit excludes 280 itself
validate_title_and_description_exclusive(title, description) ==
  IF title = <<>> THEN Raise("ValueError", <<"Titel is verplicht">>, 26)
  ELSE IF description = <<>>
    THEN Raise("ValueError", <<"Een korte beschrijving is verplicht">>, 28)
  ELSE IF Len(description) >= MaxDescription
    THEN Raise("ValueError", <<"Er zijn maximaal 280 karakters toegestaan">>, 30)
  ELSE Passed

validate_title_and_description(title, description) ==
  IF title = <<>> THEN Raise("ValueError", <<"Titel is verplicht">>, 26)
  ELSE IF description = <<>>
    THEN Raise("ValueError", <<"Een korte beschrijving is verplicht">>, 28)
  ELSE IF Len(description) > MaxDescription
    THEN Raise("ValueError", <<"Er zijn maximaal 280 karakters toegestaan">>, 30)
  ELSE Passed

(***************************************************************************)
(* The URL pattern of validate_link_and_title, matched as re.match does:   *)
(* a set of positions (index of the next unread character) is pushed       *)
(* through the pattern piece by piece.                                     *)
(*   ^((https?):\/\/)?(www.)?[a-z0-9-]+(\.[a-z]{2,}){1,3}                  *)
(*    (#?\/?[a-zA-Z0-9#-]+)*\/?(\?[a-zA-Z0-9-_]+=[a-zA-Z0-9-%]+&?)?$       *)
(***************************************************************************)
\* one character of the class C
CharAt(s, P, C) == {p + 1 : p \in {q \in P : q <= Len(s) /\ s[q] \in C}}

\* "." : any character but a newline
DotAt(s, P) == {p + 1 : p \in {q \in P : q <= Len(s) /\ s[q] # "\n"}}

\* a literal string
RECURSIVE Lit(_, _, _)
Lit(s, P, lit) ==
  IF lit = <<>> THEN P ELSE Lit(s, CharAt(s, P, {Head(lit)}), Tail(lit))

\* [C]*
RECURSIVE ClassStar(_, _, _)
ClassStar(s, P, C) ==
  LET next == P \cup CharAt(s, P, C)
  IN  IF next = P THEN P ELSE ClassStar(s, next, C)

\* [C]+
ClassPlus(s, P, C) == ClassStar(s, CharAt(s, P, C), C)

\* #?\/?[a-zA-Z0-9#-]+
PathSegment(s, P) ==
  LET hash  == P \cup CharAt(s, P, {"#"})
      slash == hash \cup CharAt(s, hash, {"/"})
  IN  ClassPlus(s, slash, Lower \cup Upper \cup Digit \cup {"#", "-"})

\* (#?\/?[a-zA-Z0-9#-]+)*
RECURSIVE PathStar(_, _)
PathStar(s, P) ==
  LET next == P \cup PathSegment(s, P)
  IN  IF next = P THEN P ELSE PathStar(s, next)

\* \.[a-z]{2,}
TldSegment(s, P) ==
  LET dot == CharAt(s, P, {"."})
      two == CharAt(s, CharAt(s, dot, Lower), Lower)
  IN  ClassStar(s, two, Lower)

\* pattern.match(url) is not None
UrlPatternMatch(url) ==
  LET http   == Lit(url, {1}, <<"h", "t", "t", "p">>)
      https  == http \cup CharAt(url, http, {"s"})
      scheme == {1} \cup Lit(url, https, <<":", "/", "/">>)
      www    == scheme \cup DotAt(url, Lit(url, scheme, <<"w", "w", "w">>))
      host   == ClassPlus(url, www, Lower \cup Digit \cup {"-"})
      tld1   == TldSegment(url, host)
      tld2   == TldSegment(url, tld1)
      tld3   == TldSegment(url, tld2)
      path   == PathStar(url, tld1 \cup tld2 \cup tld3)
      slash  == path \cup CharAt(url, path, {"/"})
      mark   == CharAt(url, slash, {"?"})
      key    == ClassPlus(url, mark, Lower \cup Upper \cup Digit \cup {"-", "_"})
      eq     == CharAt(url, key, {"="})
      val    == ClassPlus(url, eq, Lower \cup Upper \cup Digit \cup {"-", "%"})
      query  == slash \cup val \cup CharAt(url, val, {"&"})
  IN  \/ Len(url) + 1 \in query
      \/ Len(url) >= 1 /\ url[Len(url)] = "\n" /\ Len(url) \in query

\* validate_link_and_title reads the name "description", which is neither a
\* parameter nor a local nor a module global (line 40): evaluating it raises
\* NameError, so the helper never completes normally once the url matches.
validate_link_and_title(url, title) ==
  IF title = <<>> THEN Raise("ValueError", <<"Een titel is verplicht.">>, 34)
  ELSE IF url = <<>> THEN Raise("ValueError", <<"Een bron is verplicht">>, 36)
  ELSE IF ~UrlPatternMatch(url) THEN Raise("ValueError", <<"Vul een valide url in">>, 39)
  ELSE Raise("NameError", <<"name 'description' is not defined">>, 40)

validate_message(message) ==
  IF message = <<>> THEN Raise("ValueError", <<"Een bericht is verplicht">>, 45)
  ELSE IF Len(message) > MaxMessage
    THEN Raise("ValueError", <<"Een bericht mag maximaal 144 karakters zijn">>, 47)
  ELSE Passed

RECURSIVE input2slug(_)
input2slug(input) ==
  IF input = <<>> THEN <<>>
  ELSE LET c == LowerChar(Head(input))
       IN  <<IF c = " " THEN "-" ELSE c>> \o input2slug(Tail(input))

(***************************************************************************)
(* Arguments the caller passes.                                            *)
(***************************************************************************)
Tokens == {"token-1"}
Emails == {"user@kennishub.nl"}
Ids == {"7"}
Titles == {<<>>, <<"T">>}
Descriptions ==
  {Str(0), Str(1), Str(MaxLinkDescription), Str(MaxLinkDescription + 1),
   Str(MaxDescription), Str(MaxDescription + 1)}
Passwords == {Str(0), Str(MinPassword - 1), Str(MinPassword), Str(MinPassword + 1)}
CommentMessages == {Str(0), Str(MaxMessage), Str(MaxMessage + 1)}
Urls ==
  { <<>>,
    <<"e", "x", "a", "m", "p", "l", "e", ".", "c", "o", "m">>,
    <<"h", "t", "t", "p", "s", ":", "/", "/", "w", "w", "w", ".", "a", ".",
      "n", "l", "/", "p", "?", "q", "=", "1">>,
    <<"h", "t", "t", "p", ":", "/", "/">>,
    <<"n", "o", "t", " ", "a", " ", "u", "r", "l">> }
Names == { <<"H", "e", "l", "l", "o", " ", "W", "o", "r", "l", "d">>,
           <<"a", "-", "b">> }

(***************************************************************************)
(* Responses of the remote service, as the transport hands them over.      *)
(***************************************************************************)
StatusCodes == {200, 201, 304, 401, 404, 500}

\* values of the body's "status" member
StatusValues == {"true", "false", "\"ok\""}

\* values of the body's "message" member
MessageValues ==
  { <<>>,
    <<InvalidEmailText>>,
    <<"email: ", InvalidEmailText, " (422)">>,
    <<"Unauthenticated.">> }

\* elements of the body's "data" array
TopicFull ==
  [id |-> "1", user_id |-> "2", title |-> "\"T\"", slug |-> "\"t\"",
   description |-> "\"D\"", created_at |-> "\"c\"", updated_at |-> "\"u\"",
   human_readable_created_at |-> "\"now\"", url |-> "\"l\"",
   upvotes_count |-> "3", comments_count |-> "4",
   user |-> [name |-> "\"A\"", slug |-> "\"a\"",
             created_at |-> "\"uc\"", updated_at |-> "\"uu\""]]
TopicSparse ==
  [id |-> "5", title |-> "\"S\"", user |-> [name |-> "\"B\""]]
TopicNoUser ==
  [id |-> "6", user_id |-> "null", slug |-> "\"n\""]
TopicValues == {TopicFull, TopicSparse, TopicNoUser}

\* lists of at most n elements of S
RECURSIVE SeqsUpTo(_, _)
SeqsUpTo(S, n) ==
  IF n = 0 THEN {<<>>}
  ELSE LET shorter == SeqsUpTo(S, n - 1)
       IN  shorter \cup {Append(q, x) : q \in shorter, x \in S}

DataValues == SeqsUpTo(TopicValues, MaxTopics)

\* a member that may be absent: <<>> or <<v>>
Optional(S) == {<<>>} \cup {<<v>> : v \in S}

\* the decoded JSON object with the given members
JsonObject(s, m, d) ==
  [k \in (IF s = <<>> THEN {} ELSE {"status"})
         \cup (IF m = <<>> THEN {} ELSE {"message"})
         \cup (IF d = <<>> THEN {} ELSE {"data"})
     |-> CASE k = "status"  -> s[1]
           [] k = "message" -> m[1]
           [] k = "data"    -> d[1]]

JsonBodies ==
  {JsonObject(s, m, d) :
     s \in Optional(StatusValues), m \in Optional(MessageValues),
     d \in Optional(DataValues)}

\* valid = FALSE: the body is not JSON (an HTML error page, an empty body)
Responses ==
  {[status_code |-> c, valid |-> TRUE, body |-> b] : c \in StatusCodes, b \in JsonBodies}
  \cup {[status_code |-> c, valid |-> FALSE, body |-> EmptyDict] : c \in StatusCodes}

\* response.text: the body as received, not decoded
ResponseText(r) == [text_of |-> r.body, is_json |-> r.valid]

\* response.raise_for_status() of the requests library: HTTPError for a 4xx
\* or 5xx status, otherwise it returns None
raise_for_status(r, l) ==
  IF 400 <= r.status_code /\ r.status_code < 600
  THEN Raise("HTTPError", <<>>, l)
  ELSE Passed

\* response.json() succeeded
JsonDecodes(r) == r.valid

\* the exception of response.json() on a body that is not JSON
JsonError(l) == Raise("JSONDecodeError", <<>>, l)

\* raise KeyError(key) of d[key]
KeyError(key, l) == Raise("KeyError", <<key>>, l)

\* requests.get / requests.post: what goes out
Request(method, endpoint, token) ==
  [method |-> method, endpoint |-> endpoint, auth |-> token]

(***************************************************************************)
(* A call runs in two steps: up to the blocking requests.get/post (or up   *)
(* to a local raise), and from the response to the return or raise.        *)
(*   pc = "idle"     no call made yet                                      *)
(*   pc = "waiting"  the request is out, the caller is blocked             *)
(*   pc = "done"     the call returned or raised; result tells which       *)
(* sent and received list the requests and responses of the current call.  *)
(***************************************************************************)
Init ==
  /\ self \in {[base_url |-> DefaultBaseUrl, format |-> f] : f \in {"json", "text"}}
  /\ pc = "idle"
  /\ op = ""
  /\ args = EmptyDict
  /\ sent = <<>>
  /\ received = <<>>
  /\ result = NoResult

\* variant: the request goes out before the local check is looked at
Begin_request_first(name, a, pre, req) ==
  /\ pc = "idle"
  /\ op' = name
  /\ args' = a
  /\ received' = <<>>
  /\ sent' = <<req>>
  /\ IF pre.kind = "raise"
     THEN result' = pre /\ pc' = "done"
     ELSE result' = NoResult /\ pc' = "waiting"
  /\ UNCHANGED self

\* entry of method name with arguments a: pre is the outcome of the code
\* before the request (Passed, or the exception raised there), req the
\* request the method then issues
Begin(name, a, pre, req) ==
  /\ pc = "idle"
  /\ op' = name
  /\ args' = a
  /\ received' = <<>>
  /\ IF pre.kind = "raise"
     THEN /\ sent' = <<>>
          /\ result' = pre
          /\ pc' = "done"
     ELSE /\ sent' = <<req>>
          /\ result' = NoResult
          /\ pc' = "waiting"
  /\ UNCHANGED self

\* method name is blocked in its requests.get/post
Awaiting(name) == pc = "waiting" /\ op = name

\* variant: a 5xx response makes the method send its request once more
Finish_retry(r, outcome) ==
  /\ pc = "waiting"
  /\ received' = Append(received, r)
  /\ result' = outcome
  /\ pc' = "done"
  /\ sent' = IF r.status_code >= 500 THEN Append(sent, sent[1]) ELSE sent
  /\ UNCHANGED <<self, op, args>>

\* the response r arrives and the rest of the blocked method runs to outcome
Finish(r, outcome) ==
  /\ pc = "waiting"
  /\ received' = Append(received, r)
  /\ result' = outcome
  /\ pc' = "done"
  /\ UNCHANGED <<self, op, args, sent>>

\* the call has returned or raised and the caller goes on to its next call;
\* the instance keeps nothing of a call but its configuration
call_ends ==
  /\ pc = "done"
  /\ pc' = "idle"
  /\ op' = ""
  /\ args' = EmptyDict
  /\ sent' = <<>>
  /\ received' = <<>>
  /\ result' = NoResult
  /\ UNCHANGED self

\* the tail shared by the methods that end in "else: response.raise_for_status()"
ElseRaiseForStatus(r, l) ==
  LET e == raise_for_status(r, l)
  IN  IF e.kind = "raise" THEN e ELSE ReturnNone(l)

\* the tail shared by the methods that return per self.format
ReturnPerFormat(r, l) ==
  IF self.format = "json"
  THEN IF JsonDecodes(r) THEN Return(r.body, l) ELSE JsonError(l)
  ELSE Return(ResponseText(r), l + 2)

(***************************************************************************)
(* login_user                                                              *)
(***************************************************************************)
\* variant: a 401 answer is reported as a login error
login_user_response_401(r) ==
  IF r.status_code = HTTP_OK
  THEN IF ~JsonDecodes(r) THEN JsonError(63)
       ELSE IF ~Truthy(Get(r.body, "status"))
         THEN Raise("LoginError", <<"Onjuiste gebruikersnaam of wachtwoord">>, 65)
       ELSE ReturnNone(65)
  ELSE IF r.status_code = HTTP_UNAUTHORIZED
  THEN Raise("LoginError", <<"Onjuiste gebruikersnaam of wachtwoord">>, 65)
  ELSE ElseRaiseForStatus(r, 67)

login_user_response(r) ==
  IF r.status_code = HTTP_OK
  THEN IF ~JsonDecodes(r) THEN JsonError(63)
       ELSE IF ~Truthy(Get(r.body, "status"))
         THEN Raise("LoginError", <<"Onjuiste gebruikersnaam of wachtwoord">>, 65)
       ELSE ReturnNone(65)
  ELSE ElseRaiseForStatus(r, 67)

login_user(email, password) ==
  Begin("login_user", [email |-> email, password |-> password], Passed,
        Request("POST", <<self.base_url, "user/login">>, None))

login_user_done ==
  /\ Awaiting("login_user")
  /\ \E r \in Responses : Finish(r, login_user_response(r))

(***************************************************************************)
(* register_user                                                           *)
(***************************************************************************)
\* variant: a password of exactly 8 characters is refused too
register_user_check_inclusive(password) ==
  IF Len(password) <= MinPassword
  THEN Raise("RegistrationError",
             <<"Je wachtwoord moet minimaal 8 karakters bevatten.">>, 79)
  ELSE Passed

register_user_check(password) ==
  IF Len(password) < MinPassword
  THEN Raise("RegistrationError",
             <<"Je wachtwoord moet minimaal 8 karakters bevatten.">>, 79)
  ELSE Passed

register_user_response(r) ==
  IF r.status_code = HTTP_OK
  THEN IF ~JsonDecodes(r) THEN JsonError(84)
       ELSE IF ~Truthy(Get(r.body, "status"))
         THEN Raise("RegistrationError",
                    <<"Er is iets mis gegaan met registreren, probeer het later nog eens. Of probeer je wachtwoord te resetten.">>, 86)
       ELSE ReturnNone(86)
  ELSE IF r.status_code = HTTP_UNAUTHORIZED
  THEN Raise("RegistrationError", <<"Wachtwoord is verplicht.">>, 88)
  ELSE ElseRaiseForStatus(r, 90)

register_user(name, email, function, password, url) ==
  Begin("register_user",
        [name |-> name, email |-> email, function |-> function,
         password |-> password, url |-> url],
        register_user_check(password),
        Request("POST", <<self.base_url, "user/register">>, None))

register_user_done ==
  /\ Awaiting("register_user")
  /\ \E r \in Responses : Finish(r, register_user_response(r))

(***************************************************************************)
(* reset_password                                                          *)
(***************************************************************************)
reset_password_response(r) ==
  IF r.status_code = HTTP_OK
  THEN IF ~JsonDecodes(r) THEN JsonError(101)
       ELSE IF ~Truthy(Get(r.body, "status"))
         THEN IF /\ "message" \in DOMAIN r.body
                 /\ r.body["message"] # <<>>
                 /\ Contains(r.body["message"], <<InvalidEmailText>>)
              THEN Raise("PasswordError", <<"Invalid email address">>, 105)
              ELSE Raise("PasswordError", <<"Unknown error">>, 107)
       ELSE ReturnNone(102)
  ELSE ElseRaiseForStatus(r, 109)

reset_password(email) ==
  Begin("reset_password", [email |-> email], Passed,
        Request("POST", <<self.base_url, "user/reset_password">>, None))

reset_password_done ==
  /\ Awaiting("reset_password")
  /\ \E r \in Responses : Finish(r, reset_password_response(r))

(***************************************************************************)
(* verify_email                                                            *)
(***************************************************************************)
\* the name InvalidVerificationLink is defined nowhere: the raise statement
\* of line 122 raises NameError
verify_email_response(r) ==
  IF r.status_code # HTTP_OK
  THEN Raise("NameError", <<"name 'InvalidVerificationLink' is not defined">>, 122)
  ELSE IF ~JsonDecodes(r) THEN JsonError(124)
  ELSE Return(r.body, 125)

verify_email(id, hash_value, expires, signature) ==
  Begin("verify_email",
        [id |-> id, hash_value |-> hash_value, expires |-> expires,
         signature |-> signature],
        Passed,
        Request("GET", <<self.base_url, "email/verify/", id, "/", hash_value>>, None))

verify_email_done ==
  /\ Awaiting("verify_email")
  /\ \E r \in Responses : Finish(r, verify_email_response(r))

(***************************************************************************)
(* get_user_info                                                           *)
(***************************************************************************)
get_user_info_response(r) ==
  IF r.status_code = HTTP_OK
  THEN IF ~JsonDecodes(r) THEN JsonError(140)
       ELSE IF EqTrue(Get(r.body, "status"))
         THEN IF "data" \in DOMAIN r.body
              THEN Return(r.body["data"], 142)
              ELSE KeyError("data", 142)
       ELSE IF "message" \in DOMAIN r.body
         THEN Raise("ValueError", r.body["message"], 144)
         ELSE KeyError("message", 144)
  ELSE ElseRaiseForStatus(r, 146)

get_user_info(token) ==
  Begin("get_user_info", [token |-> token], Passed,
        Request("GET", <<self.base_url, "user/details">>, token))

get_user_info_done ==
  /\ Awaiting("get_user_info")
  /\ \E r \in Responses : Finish(r, get_user_info_response(r))

(***************************************************************************)
(* create_topic and get_profile interpret the response alike.              *)
(***************************************************************************)
\* lines l .. l+7 of "if response.status_code == 200: ... else: ..."
StatusDataResponse(r, l) ==
  IF r.status_code = HTTP_OK
  THEN IF ~JsonDecodes(r) THEN JsonError(l + 1)
       ELSE IF "status" \notin DOMAIN r.body THEN KeyError("status", l + 2)
       ELSE IF Truthy(r.body["status"])
         THEN IF "data" \in DOMAIN r.body
              THEN Return(r.body["data"], l + 3)
              ELSE KeyError("data", l + 3)
       ELSE IF "message" \in DOMAIN r.body
         THEN Raise("ValueError", r.body["message"], l + 5)
         ELSE KeyError("message", l + 5)
  ELSE ElseRaiseForStatus(r, l + 7)

create_topic_response(r) == StatusDataResponse(r, 157)

create_topic(token, title, description) ==
  Begin("create_topic",
        [token |-> token, title |-> title, description |-> description],
        validate_title_and_description(title, description),
        Request("POST", <<self.base_url, "topics/create">>, token))

create_topic_done ==
  /\ Awaiting("create_topic")
  /\ \E r \in Responses : Finish(r, create_topic_response(r))

get_profile_response(r) == StatusDataResponse(r, 206)

get_profile(token, input_name) ==
  Begin("get_profile", [token |-> token, input_name |-> input_name], Passed,
        Request("GET", <<self.base_url, "user/profile/">> \o input2slug(input_name),
                token))

get_profile_done ==
  /\ Awaiting("get_profile")
  /\ \E r \in Responses : Finish(r, get_profile_response(r))

(***************************************************************************)
(* follow_topic, forgot_password, send_posts_replies, send_reply_comment   *)
(***************************************************************************)
follow_topic_response(r) == ReturnPerFormat(r, 171)

follow_topic(token, topic_id) ==
  Begin("follow_topic", [token |-> token, topic_id |-> topic_id], Passed,
        Request("POST", <<self.base_url, "topics/", topic_id, "/follow-topic">>, token))

follow_topic_done ==
  /\ Awaiting("follow_topic")
  /\ \E r \in Responses : Finish(r, follow_topic_response(r))

forgot_password_response(r) == ReturnPerFormat(r, 225)

forgot_password(email) ==
  Begin("forgot_password", [email |-> email], Passed,
        Request("POST", <<self.base_url, "user/forgot-password">>, None))

forgot_password_done ==
  /\ Awaiting("forgot_password")
  /\ \E r \in Responses : Finish(r, forgot_password_response(r))

send_posts_replies_response(r) == ReturnPerFormat(r, 241)

send_posts_replies(token, title, description, topic_id, url) ==
  Begin("send_posts_replies",
        [token |-> token, title |-> title, description |-> description,
         topic_id |-> topic_id, url |-> url],
        validate_link_and_title(url, title),
        Request("POST", <<self.base_url, "posts/create">>, token))

\* never enabled (validate_link_and_title always raises), hence not in Next
send_posts_replies_done ==
  /\ Awaiting("send_posts_replies")
  /\ \E r \in Responses : Finish(r, send_posts_replies_response(r))

send_reply_comment_response(r) == ReturnPerFormat(r, 253)

\* validate_message is not called here
send_reply_comment(token, message, post_id) ==
  Begin("send_reply_comment",
        [token |-> token, message |-> message, post_id |-> post_id], Passed,
        Request("POST", <<self.base_url, "comments/", post_id, "/create">>, token))

send_reply_comment_done ==
  /\ Awaiting("send_reply_comment")
  /\ \E r \in Responses : Finish(r, send_reply_comment_response(r))

(***************************************************************************)
(* get_topics_list                                                         *)
(***************************************************************************)
\* the dict built in lines 185-196
topics_info(topic) ==
  [topic_id |-> Get(topic, "id"),
   user_id |-> Get(topic, "user_id"),
   title |-> Get(topic, "title"),
   topic_slug |-> Get(topic, "slug"),
   description |-> Get(topic, "description"),
   topic_created_at |-> Get(topic, "created_at"),
   topic_updated_at |-> Get(topic, "updated_at"),
   topic_human_readable_created_at |-> Get(topic, "human_readable_created_at"),
   user_name |-> Get(GetDefault(topic, "user", EmptyDict), "name"),
   user_slug |-> Get(GetDefault(topic, "user", EmptyDict), "slug")]

\* variant: each entry is inserted at the front of selected_info
RECURSIVE selected_topics_reversed(_)
selected_topics_reversed(data) ==
  IF data = <<>> THEN <<>>
  ELSE <<topics_info(data[Len(data)])>>
         \o selected_topics_reversed(SubSeq(data, 1, Len(data) - 1))

\* the loop of lines 183-197: selected_info after the elements of data
RECURSIVE selected_topics(_)
selected_topics(data) ==
  IF data = <<>> THEN <<>>
  ELSE Append(selected_topics(SubSeq(data, 1, Len(data) - 1)),
              topics_info(data[Len(data)]))

get_topics_list_response(r) ==
  LET e == raise_for_status(r, 180)
  IN  IF e.kind = "raise" THEN e
      ELSE IF ~JsonDecodes(r) THEN JsonError(181)
      ELSE Return(selected_topics(GetDefault(r.body, "data", <<>>)), 199)

get_topics_list(token, sort_order) ==
  Begin("get_topics_list", [token |-> token, sort_order |-> sort_order], Passed,
        Request("GET", <<self.base_url, "topics/list">>, token))

get_topics_list_done ==
  /\ Awaiting("get_topics_list")
  /\ \E r \in Responses : Finish(r, get_topics_list_response(r))

(***************************************************************************)
(* get_topics_replies                                                      *)
(***************************************************************************)
\* the dict built in lines 271-283
post_info(post) ==
  [title |-> Get(post, "title"),
   description |-> Get(post, "description"),
   url |-> Get(post, "url"),
   post_id |-> Get(post, "id"),
   post_date |-> Get(post, "human_readable_created_at"),
   user_name |-> Get(GetDefault(post, "user", EmptyDict), "name"),
   user_slug |-> Get(GetDefault(post, "user", EmptyDict), "slug"),
   upvotes_count |-> Get(post, "upvotes_count"),
   comments_count |-> Get(post, "comments_count"),
   post_created_at |-> Get(GetDefault(post, "user", EmptyDict), "created_at"),
   post_updated_at |-> Get(GetDefault(post, "user", EmptyDict), "updated_at")]

\* the loop of lines 269-284
RECURSIVE selected_posts(_)
selected_posts(data) ==
  IF data = <<>> THEN <<>>
  ELSE Append(selected_posts(SubSeq(data, 1, Len(data) - 1)),
              post_info(data[Len(data)]))

get_topics_replies_response(r) ==
  IF ~JsonDecodes(r) THEN JsonError(267)
  ELSE Return(selected_posts(GetDefault(r.body, "data", <<>>)), 286)

get_topics_replies(token, input_topic, sort_by, sort_order) ==
  Begin("get_topics_replies",
        [token |-> token, input_topic |-> input_topic, sort_by |-> sort_by,
         sort_order |-> sort_order],
        Passed,
        Request("GET", <<self.base_url, "posts/list">>, token))

get_topics_replies_done ==
  /\ Awaiting("get_topics_replies")
  /\ \E r \in Responses : Finish(r, get_topics_replies_response(r))

(***************************************************************************)
(* The caller makes one call after the other.                              *)
(***************************************************************************)
Next ==
  \/ \E e \in Emails, p \in Passwords : login_user(e, p)
  \/ login_user_done
  \/ \E n \in Names, e \in Emails, p \in Passwords, u \in Urls :
        register_user(n, e, "docent", p, u)
  \/ register_user_done
  \/ \E e \in Emails : reset_password(e)
  \/ reset_password_done
  \/ \E i \in Ids : verify_email(i, "b0392e", "1677581044", "72451f")
  \/ verify_email_done
  \/ \E t \in Tokens : get_user_info(t)
  \/ get_user_info_done
  \/ \E t \in Tokens, ti \in Titles, d \in Descriptions : create_topic(t, ti, d)
  \/ create_topic_done
  \/ \E t \in Tokens, i \in Ids : follow_topic(t, i)
  \/ follow_topic_done
  \/ \E t \in Tokens, o \in {"desc", "asc"} : get_topics_list(t, o)
  \/ get_topics_list_done
  \/ \E t \in Tokens, n \in Names : get_profile(t, n)
  \/ get_profile_done
  \/ \E e \in Emails : forgot_password(e)
  \/ forgot_password_done
  \/ \E t \in Tokens, ti \in Titles, d \in Descriptions, i \in Ids, u \in Urls :
        send_posts_replies(t, ti, d, i, u)
  \/ \E t \in Tokens, m \in CommentMessages, i \in Ids : send_reply_comment(t, m, i)
  \/ send_reply_comment_done
  \/ \E t \in Tokens, n \in Names : get_topics_replies(t, n, "created_at", "desc")
  \/ get_topics_replies_done
  \/ call_ends

Spec == Init /\ [][Next]_vars

(***************************************************************************)
(* Properties.                                                             *)
(***************************************************************************)

\* C1: in create_topic and send_posts_replies, a call that ends in a
\* ValueError raised by the pre-validation step (the validators, lines 24-41)
\* has issued no HTTP request.
ValidationErrorsNeverReachNetwork ==
  ( /\ pc = "done"
    /\ op \in {"create_topic", "send_posts_replies"}
    /\ result.kind = "raise"
    /\ result.exc = "ValueError"
    /\ result.line \in 24..41 )
  => (sent = <<>> /\ received = <<>>)

\* create_topic rejected a description of 281 characters
ValidationErrorRaised ==
  /\ pc = "done"
  /\ op = "create_topic"
  /\ Len(args.description) = 281
  /\ result.exc = "ValueError"
  /\ result.line = 30
  /\ sent = <<>>

\* C2: register_user with a password shorter than 8 characters raises
\* RegistrationError with no request issued, whatever the other arguments;
\* with 8 or more characters it raises nothing locally and issues the POST
\* to user/register.
RegisterPasswordLength ==
  (op = "register_user" /\ pc # "idle") =>
    IF Len(args.password) < 8
    THEN /\ pc = "done"
         /\ result.kind = "raise"
         /\ result.exc = "RegistrationError"
         /\ sent = <<>>
         /\ received = <<>>
    ELSE /\ Len(sent) = 1
         /\ sent[1].method = "POST"
         /\ sent[1].endpoint = <<self.base_url, "user/register">>
         /\ (result.kind = "raise" => Len(received) = 1)

\* register_user was called with a password of 7 characters and raised
RegisterShortPasswordRaised ==
  /\ op = "register_user"
  /\ pc = "done"
  /\ Len(args.password) = 7
  /\ result.exc = "RegistrationError"
  /\ result.line = 79

\* C3 as stated: every completed call has performed exactly one HTTP request.
ExactlyOneRequestPerCall ==
  pc = "done" => Len(sent) = 1

\* C3 amended: a call never issues more than one request and never repeats
\* one; a completed call has issued exactly one, unless its local check
\* (the validator of create_topic and of send_posts_replies, the password
\* length check of register_user) raised, and then it has issued none.
AtMostOneRequestPerCall ==
  /\ Len(sent) <= 1
  /\ Len(received) <= Len(sent)
  /\ pc = "done" =>
       IF /\ op \in {"create_topic", "send_posts_replies", "register_user"}
          /\ result.kind = "raise"
          /\ result.line \in (24..41) \cup {79}
       THEN Len(sent) = 0
       ELSE Len(sent) = 1 /\ Len(received) = 1

\* a call got a 500 response, surfaced it and sent nothing more
FailureNotRetried ==
  /\ pc = "done"
  /\ Len(sent) = 1
  /\ Len(received) = 1
  /\ received[1].status_code = 500
  /\ result.exc = "HTTPError"

\* C4: a non-200 status answered to login_user or register_user (401 to
\* register_user excepted) ends the call in a transport failure: the call
\* neither returns normally nor raises LoginError or RegistrationError.
NonOkStatusIsTransportFailure ==
  ( /\ pc = "done"
    /\ op \in {"login_user", "register_user"}
    /\ Len(received) = 1
    /\ received[1].status_code # 200
    /\ ~(op = "register_user" /\ received[1].status_code = 401) )
  => ( /\ result.kind = "raise"
       /\ result.exc \notin {"LoginError", "RegistrationError"} )

\* C5: send_posts_replies with a non-empty title, a url matching the pattern
\* and a description of at most 180 characters issues the POST to
\* posts/create and returns the decoded body (format "json") or the text.
SendPostsRepliesAcceptsValidInput ==
  ( /\ op = "send_posts_replies"
    /\ pc # "idle"
    /\ args.title # <<>>
    /\ UrlPatternMatch(args.url)
    /\ Len(args.description) <= 180 )
  => ( /\ Len(sent) = 1
       /\ sent[1].method = "POST"
       /\ sent[1].endpoint = <<self.base_url, "posts/create">>
       /\ pc = "done" =>
            /\ Len(received) = 1
            /\ result.kind = "return"
            /\ (self.format = "json" /\ received[1].valid
                  => result.value = <<received[1].body>>)
            /\ (self.format # "json"
                  => result.value = <<ResponseText(received[1])>>) )

\* C6 as stated: a call that ends in RegistrationError, LoginError or
\* PasswordError has received a 200 response whose body's status is falsy.
DomainErrorsOnlyAfterOkBody ==
  ( /\ pc = "done"
    /\ result.kind = "raise"
    /\ result.exc \in {"RegistrationError", "LoginError", "PasswordError"} )
  => ( /\ Len(received) = 1
       /\ received[1].status_code = 200
       /\ received[1].valid
       /\ ~Truthy(Get(received[1].body, "status")) )

\* C6 amended: LoginError and PasswordError are raised only after a 200
\* response whose body's status is falsy; RegistrationError is raised after
\* such a response, or after a 401 response, or with no request issued when
\* the password is shorter than 8 characters.
DomainErrorsOnlyAfterOkBodyOrRegisterRules ==
  ( /\ pc = "done"
    /\ result.kind = "raise"
    /\ result.exc \in {"RegistrationError", "LoginError", "PasswordError"} )
  => \/ /\ Len(received) = 1
        /\ received[1].status_code = 200
        /\ received[1].valid
        /\ ~Truthy(Get(received[1].body, "status"))
     \/ /\ result.exc = "RegistrationError"
        /\ op = "register_user"
        /\ Len(received) = 1
        /\ received[1].status_code = 401
     \/ /\ result.exc = "RegistrationError"
        /\ op = "register_user"
        /\ sent = <<>>
        /\ received = <<>>
        /\ Len(args.password) < 8

\* login_user raised LoginError on a 200 response with "status": false
LoginErrorAfterOkBody ==
  /\ pc = "done"
  /\ op = "login_user"
  /\ result.exc = "LoginError"
  /\ received[1].status_code = 200
  /\ "status" \in DOMAIN received[1].body
  /\ received[1].body["status"] = "false"

\* C7: validate_title_and_description accepts (title, description) iff the
\* title is non-empty, the description is non-empty and the description has
\* at most 280 characters; otherwise it raises ValueError with the message
\* of the first violated rule, in that order.
TitleDescriptionValidation ==
  (op = "create_topic" /\ pc # "idle") =>
    LET title       == args.title
        description == args.description
        rejected    == pc = "done" /\ sent = <<>>
    IN  /\ ~rejected <=>
             (title # <<>> /\ description # <<>> /\ Len(description) <= 280)
        /\ rejected =>
             /\ result.kind = "raise"
             /\ result.exc = "ValueError"
             /\ result.msg =
                  IF title = <<>> THEN <<"Titel is verplicht">>
                  ELSE IF description = <<>>
                    THEN <<"Een korte beschrijving is verplicht">>
                  ELSE <<"Er zijn maximaal 280 karakters toegestaan">>

\* a description of exactly 280 characters was accepted and the request sent
DescriptionAtLimitAccepted ==
  /\ op = "create_topic"
  /\ pc = "waiting"
  /\ args.title # <<>>
  /\ Len(args.description) = 280
  /\ Len(sent) = 1

\* C8: reset_password returns nothing on 200 with a truthy body status;
\* raises PasswordError("Invalid email address") on 200 with a falsy status
\* and a message containing "The selected E-mailadres is invalid.";
\* PasswordError("Unknown error") on 200 with a falsy status and any other,
\* missing or empty message; a transport error, never a PasswordError, on a
\* non-200 status.
ResetPasswordOutcome ==
  (pc = "done" /\ op = "reset_password") =>
    LET r == received[1]
    IN  IF r.status_code = 200
        THEN r.valid =>
               IF Truthy(Get(r.body, "status"))
               THEN result.kind = "return" /\ result.value = <<>>
               ELSE /\ result.kind = "raise"
                    /\ result.exc = "PasswordError"
                    /\ result.msg =
                         IF /\ "message" \in DOMAIN r.body
                            /\ \E i \in 1..Len(r.body["message"]) :
                                 r.body["message"][i] =
                                   "The selected E-mailadres is invalid."
                         THEN <<"Invalid email address">>
                         ELSE <<"Unknown error">>
        ELSE /\ result.kind = "raise"
             /\ result.exc = "HTTPError"

\* C9: get_user_info returns the body's data exactly when the response is
\* 200 with a truthy body status; on 200 with a falsy body status it raises
\* ValueError carrying the body's message; on a non-200 status it raises a
\* transport error and returns no value.  Stated for bodies of the documented
\* shape: a boolean or absent status, and the member the outcome carries
\* (data, message) present.
GetUserInfoOutcome ==
  (pc = "done" /\ op = "get_user_info") =>
    LET r == received[1]
        status == Get(r.body, "status")
    IN  /\ (result.kind = "return" /\ result.value # <<>>) =>
             /\ r.status_code = 200
             /\ Truthy(status)
             /\ result.value = <<r.body["data"]>>
        /\ IF r.status_code = 200
           THEN (r.valid /\ status \in {"true", "false", "null"}) =>
                  IF Truthy(status)
                  THEN "data" \in DOMAIN r.body =>
                         /\ result.kind = "return"
                         /\ result.value = <<r.body["data"]>>
                  ELSE "message" \in DOMAIN r.body =>
                         /\ result.kind = "raise"
                         /\ result.exc = "ValueError"
                         /\ result.msg = r.body["message"]
           ELSE /\ result.kind = "raise"
                /\ result.exc = "HTTPError"

====
